---- MODULE Spec2Model ----
(***************************************************************************)
(* Model of app.js: a MediaPipe Holistic overlay driven by a Camera helper *)
(* on a <video> element, with a "switch camera" button.                    *)
(*                                                                         *)
(* JavaScript runs one handler at a time; a handler runs until it returns  *)
(* or reaches an await.  Each action below is one such run: the click      *)
(* handler up to its await of getUserMedia, the continuation of            *)
(* startCamera after getUserMedia settles, the continuation after          *)
(* video.play settles, one onFrame call of a Camera instance up to its     *)
(* await of holistic.send, the settling of a send (which calls onResults), *)
(* and the window resize handler.                                          *)
(***************************************************************************)
EXTENDS Integers, Sequences, FiniteSets

\* ---------------------------------------------------------------- bounds
MaxClicks == 1
MaxSwitchClicks == 2
MaxSends == 2
MaxMirrorSends == 1
MaxFpsSends == 30
MaxNow == 2000

\* ------------------------------------------------------ program constants
FpsInterval == 1000

Facings == {"user", "environment"}

\* native resolution of the camera behind each facing (the request's width
\* and height are only 'ideal')
CameraDims(granted) == IF granted = "user" THEN <<640, 480>> ELSE <<1280, 720>>
\* window.innerWidth x window.innerHeight
WinDimsSet == {<<360, 640>>, <<800, 600>>}

NoDims == <<0, 0>>
NoStream == [id |-> -1, req |-> "none", granted |-> "none"]
NoCamera == [id |-> -1, req |-> "none"]

\* results of a frame with nobody in view and with a body in view
\* (results.poseLandmarks only)
GroupSets == {{}, {"pose"}}
DrawOrderHandsFirst == <<"left", "right", "face", "pose">>
DrawOrder == <<"face", "pose", "left", "right">>
\* every combination of detected groups
AllGroupSets == SUBSET {"face", "pose", "left", "right"}

\* landmark scores (visibility), in hundredths
Scores == {0, 34, 35, 36, 50, 51, 90, 100}
\* drawConnectors is called with a style of color and lineWidth only, so the
\* drawing utility's own default visibility minimum (0.5) applies
VisibilityMin == 50

VARIABLES
  currentFacing,     \* let currentFacing
  mirrorBackCamera,  \* let mirrorBackCamera
  cameraInstance,    \* let cameraInstance (NoCamera = null)
  srcObject,         \* video.srcObject (NoStream = null)
  videoDims,         \* <<video.videoWidth, video.videoHeight>>
  videoTransform,    \* video.style.transform
  winDims,           \* <<window.innerWidth, window.innerHeight>>
  resizePending,     \* a 'resize' event is waiting to be dispatched
  canvasDims,        \* <<canvas.width, canvas.height>>
  ctxFlipped,        \* the 2D context's transform is the horizontal flip
  ctxStack,          \* the 2D context's stack of saved states
  overlay,           \* what is painted on the canvas, in painting order
  frames,            \* let frames
  lastFpsTime,       \* let lastFpsTime
  fpsLabel,          \* the number shown in fpsLabel.textContent (-1: none yet)
  now,               \* performance.now()
  alerted,           \* an alert() has been shown
  tasks,             \* startCamera calls suspended at an await
  liveStreams,       \* streams whose tracks have not been stopped
  started,           \* Camera instances started, not stopped, loop running
  sends,             \* holistic.send calls that have not settled
  clicks,            \* number of clicks so far
  sent,              \* number of holistic.send calls so far
  lastIter,          \* how the last settled send ended
  lastDraw,          \* what the last onResults call computed before drawing
  sinceReport,       \* onResults calls completed since the last FPS report
  hist,              \* facing and mirror before each of the last clicks
  failed,            \* a startCamera call failed and no click came since
  conn               \* one drawConnectors connection: endpoint scores, outcome

vars == <<currentFacing, mirrorBackCamera, cameraInstance, srcObject, videoDims,
          videoTransform, winDims, resizePending,
          canvasDims, ctxFlipped, ctxStack, overlay,
          frames, lastFpsTime, fpsLabel, now, alerted, tasks, liveStreams,
          started, sends, clicks, sent, lastIter, lastDraw, sinceReport,
          hist, failed, conn>>

cameraVars == <<cameraInstance, srcObject, videoDims, videoTransform, tasks,
                liveStreams, started>>
windowVars == <<winDims, resizePending>>
canvasVars == <<canvasDims, ctxFlipped, ctxStack, overlay>>
fpsVars == <<frames, lastFpsTime, fpsLabel>>
drawObs == <<lastIter, lastDraw, sinceReport>>

\* ------------------------------------------------------------- operators

\* let mirrorBackCamera = true
MirrorBackCameraOff == FALSE
MirrorBackCameraDefault == TRUE

\* click handler: currentFacing === 'environment' ? 'user' : 'environment'
ToggleFacingStuck(f) == "user"
ToggleFacing(f) == IF f = "environment" THEN "user" ELSE "environment"

\* onResults: (currentFacing === 'user') ? true : mirrorBackCamera
ShouldMirrorFrontOnly(f, mb) == f = "user"
ShouldMirror(f, mb) == IF f = "user" THEN TRUE ELSE mb

\* resizeCanvas: video.videoWidth || window.innerWidth, same for the height
ResizedDims(vd, wd) ==
  <<IF vd[1] # 0 THEN vd[1] ELSE wd[1], IF vd[2] # 0 THEN vd[2] ELSE wd[2]>>

\* Assigning canvas.width / canvas.height, as resizeCanvas does, resets the 2D
\* context to its default state (identity transform, empty stack of saved
\* states) and clears the bitmap, whether or not the value changes.
ResetTransform(flipped) == FALSE
ResetStack(stack) == <<>>
ClearedBitmap(painted) == <<>>

\* ctx.clearRect(0, 0, canvas.width, canvas.height)
ClearRect(painted) == <<>>

\* ctx.translate(canvas.width, 0); ctx.scale(-1, 1) composes the horizontal
\* flip with the current transform
Mirrored(flipped) == ~flipped

\* the groups of a results object, in the order onResults draws them
Present(groups) == SelectSeq(DrawOrder, LAMBDA g : g \in groups)

\* the drawing calls of one block: drawConnectors alone for the face mesh,
\* drawConnectors then drawLandmarks for the pose and for each hand
CallsOf(g) ==
  IF g = "face" THEN <<[g |-> g, call |-> "drawConnectors"]>>
  ELSE <<[g |-> g, call |-> "drawConnectors"], [g |-> g, call |-> "drawLandmarks"]>>

\* the drawing calls onResults makes for a results object, in order (up to 7)
RECURSIVE CallsFrom(_, _)
CallsFrom(gs, i) ==
  IF i > Len(gs) THEN <<>> ELSE CallsOf(gs[i]) \o CallsFrom(gs, i + 1)

DrawCalls(groups) == CallsFrom(Present(groups), 1)

\* what is on the canvas when drawing call number throwAt threw (0: none
\* threw): the overlay lists a group once its drawConnectors call has run
Painted(groups, throwAt) ==
  LET calls == DrawCalls(groups)
      ran == IF throwAt = 0 THEN calls ELSE SubSeq(calls, 1, throwAt - 1)
      lines == SelectSeq(ran, LAMBDA c : c.call = "drawConnectors")
  IN [i \in 1..Len(lines) |-> lines[i].g]

\* drawConnectors(ctx, landmarks, CONNECTIONS, {color, lineWidth}): the line of
\* a connection is stroked when both endpoints are more visible than the
\* minimum
LineStroked(a, b) == a > VisibilityMin /\ b > VisibilityMin

\* if (now - lastFpsTime >= 1000)
FpsDueStrict(t, last) == t - last > FpsInterval
FpsDue(t, last) == t - last >= FpsInterval

\* ----------------------------------------------------------------- Init
\* The module body has run: initHolistic() created Holistic and called
\* startCamera(currentFacing), which is suspended at getUserMedia.
InitPage ==
  /\ currentFacing = "environment"
  /\ mirrorBackCamera = MirrorBackCameraDefault
  /\ cameraInstance = NoCamera
  /\ srcObject = NoStream
  /\ videoDims = NoDims
  /\ videoTransform = ""
  /\ winDims = <<360, 640>>
  /\ resizePending = FALSE
  /\ canvasDims = <<300, 150>>
  /\ ctxFlipped = FALSE
  /\ ctxStack = <<>>
  /\ overlay = <<>>
  /\ frames = 0
  /\ lastFpsTime = 0
  /\ fpsLabel = -1
  /\ now = 0
  /\ alerted = FALSE
  /\ tasks = {[id |-> 0, facing |-> "environment", pc |-> "gum"]}
  /\ liveStreams = {}
  /\ started = {}
  /\ sends = {}
  /\ clicks = 0
  /\ sent = 0
  /\ lastIter = "none"
  /\ lastDraw = [frame |-> NoStream, mirror |-> FALSE, flipAtSave |-> FALSE]
  /\ sinceReport = 0
  /\ hist = <<>>
  /\ failed = FALSE

Init ==
  /\ InitPage
  /\ conn = [a |-> 0, b |-> 0, drawn |-> "pending"]

\* -------------------------------------------------------------- actions

\* resizeCanvas()
ResizeCanvas(vd, wd) ==
  /\ canvasDims' = ResizedDims(vd, wd)
  /\ ctxFlipped' = ResetTransform(ctxFlipped)
  /\ ctxStack' = ResetStack(ctxStack)
  /\ overlay' = ClearedBitmap(overlay)

\* startCamera up to its first await: stop the stored Camera, stop and detach
\* the stream on the video element, then suspend at getUserMedia.
\* try { cameraInstance.stop(); } catch (e) {}: when stop() throws
\* (stopThrows) the error is swallowed, the Camera keeps running and the
\* call goes on.
StartCameraSync(id, facingMode, stopThrows) ==
  /\ started' = IF cameraInstance # NoCamera /\ ~stopThrows
                THEN started \ {cameraInstance}
                ELSE started
  /\ cameraInstance' = NoCamera
  /\ liveStreams' = IF srcObject # NoStream THEN liveStreams \ {srcObject}
                    ELSE liveStreams
  /\ srcObject' = NoStream
  /\ videoDims' = NoDims
  /\ tasks' = tasks \cup {[id |-> id, facing |-> facingMode, pc |-> "gum"]}
  /\ UNCHANGED videoTransform

\* switchBtn click handler
Click(limit, stopThrows) ==
  /\ clicks < limit
  /\ stopThrows => cameraInstance # NoCamera
  /\ clicks' = clicks + 1
  /\ currentFacing' = ToggleFacing(currentFacing)
  /\ StartCameraSync(clicks + 1, currentFacing', stopThrows)
  /\ hist' = Append(IF Len(hist) = 2 THEN Tail(hist) ELSE hist,
                    [f |-> currentFacing,
                     m |-> ShouldMirror(currentFacing, mirrorBackCamera),
                     idle |-> tasks = {}])
  /\ failed' = FALSE
  /\ UNCHANGED <<mirrorBackCamera, windowVars, canvasVars, fpsVars, now, alerted,
                 sends, sent, drawObs, conn>>

\* getUserMedia resolves: video.srcObject = stream; suspend at video.play()
GumResolve(t, granted) ==
  /\ t \in tasks /\ t.pc = "gum"
  /\ LET s == [id |-> t.id, req |-> t.facing, granted |-> granted]
     IN /\ srcObject' = s
        /\ liveStreams' = liveStreams \cup {s}
  /\ videoDims' = NoDims
  /\ tasks' = (tasks \ {t}) \cup {[t EXCEPT !.pc = "play"]}
  /\ UNCHANGED <<currentFacing, mirrorBackCamera, cameraInstance, videoTransform,
                 started, windowVars, canvasVars, fpsVars, now, alerted, sends,
                 clicks, sent, drawObs, hist, failed, conn>>

\* The video element learns the size of the stream assigned to srcObject
\* (videoWidth / videoHeight become non-zero) in a task of its own, before
\* the play promise settles; other callbacks of the page run in between.
LoadedMetadata ==
  /\ srcObject # NoStream /\ videoDims = NoDims
  /\ videoDims' = CameraDims(srcObject.granted)
  /\ UNCHANGED <<currentFacing, mirrorBackCamera, cameraInstance, srcObject,
                 videoTransform, tasks, liveStreams, started, windowVars,
                 canvasVars, fpsVars, now, alerted, sends, clicks, sent,
                 drawObs, hist, failed, conn>>

\* catch (err): console.error and alert; startCamera returns
CameraFail(t) ==
  /\ alerted' = TRUE
  /\ failed' = TRUE
  /\ tasks' = tasks \ {t}
  /\ UNCHANGED <<currentFacing, mirrorBackCamera, cameraInstance, srcObject,
                 videoDims, videoTransform, liveStreams, started, windowVars,
                 canvasVars, fpsVars, now, sends, clicks, sent, drawObs, hist,
                 conn>>

\* getUserMedia rejects
GumReject(t) ==
  /\ t \in tasks /\ t.pc = "gum"
  /\ CameraFail(t)

\* The element starts playing the stream of call t: the resolution of its
\* pending play promise is queued. The continuation of startCamera runs in
\* a later step, and a click in between does not cancel it.
Playing(t) ==
  /\ t \in tasks /\ t.pc = "play"
  /\ srcObject.id = t.id /\ videoDims # NoDims
  /\ tasks' = (tasks \ {t}) \cup {[t EXCEPT !.pc = "playing"]}
  /\ UNCHANGED <<currentFacing, mirrorBackCamera, cameraInstance, srcObject,
                 videoDims, videoTransform, liveStreams, started, windowVars,
                 canvasVars, fpsVars, now, alerted, sends, clicks, sent,
                 drawObs, hist, failed, conn>>

\* video.play() rejects
PlayReject(t) ==
  /\ t \in tasks /\ t.pc = "play"
  /\ CameraFail(t)

\* await video.play() resumes: resizeCanvas, new Camera(...).start(),
\* video.style.transform, on whatever the video element holds by now
PlayResolve(t) ==
  /\ t \in tasks /\ t.pc = "playing"
  /\ ResizeCanvas(videoDims, winDims)
  /\ LET c == [id |-> t.id, req |-> t.facing]
     IN /\ cameraInstance' = c
        /\ started' = started \cup {c}
  /\ videoTransform' = IF currentFacing = "user" THEN "scaleX(-1)"
                       ELSE IF mirrorBackCamera THEN "scaleX(-1)" ELSE ""
  /\ tasks' = tasks \ {t}
  /\ UNCHANGED <<currentFacing, mirrorBackCamera, srcObject, videoDims,
                 liveStreams, windowVars, fpsVars, now, alerted, sends, clicks, sent, drawObs,
                 hist, failed, conn>>

\* A started Camera whose previous onFrame has settled calls onFrame for the
\* frame the video element shows: await holistic.send({image: video})
CameraFrame(c, limit) ==
  /\ c \in started
  /\ sent < limit
  /\ \A s \in sends : s.cam # c.id
  /\ srcObject # NoStream /\ videoDims # NoDims
  /\ sends' = sends \cup {[cam |-> c.id, src |-> srcObject]}
  /\ sent' = sent + 1
  /\ UNCHANGED <<currentFacing, mirrorBackCamera, cameraVars, windowVars,
                 canvasVars, fpsVars, now, alerted, clicks, drawObs, hist, failed, conn>>

\* onResults(results) for the frame of send s; the drawing call number
\* throwAt throws (0: none does)
OnResults(s, groups, throwAt) ==
  LET mirror == ShouldMirror(currentFacing, mirrorBackCamera)
      flip0 == ResetTransform(ctxFlipped)         \* resizeCanvas()
      stack1 == Append(ResetStack(ctxStack), flip0) \* ctx.save()
      flip1 == IF mirror THEN Mirrored(flip0) ELSE flip0
  IN /\ canvasDims' = ResizedDims(videoDims, winDims)
     /\ overlay' = ClearRect(ClearedBitmap(overlay)) \o Painted(groups, throwAt)
     /\ lastDraw' = [frame |-> s.src, mirror |-> mirror, flipAtSave |-> flip0]
     /\ IF throwAt # 0
        THEN /\ ctxFlipped' = flip1
             /\ ctxStack' = stack1
             /\ lastIter' = "threw"
             /\ UNCHANGED <<fpsVars, sinceReport>>
        ELSE /\ ctxFlipped' = stack1[Len(stack1)]   \* ctx.restore()
             /\ ctxStack' = SubSeq(stack1, 1, Len(stack1) - 1)
             /\ lastIter' = "drawn"
             /\ IF FpsDue(now, lastFpsTime)
                THEN /\ fpsLabel' = frames + 1
                     /\ frames' = 0
                     /\ lastFpsTime' = now
                     /\ sinceReport' = 0
                ELSE /\ frames' = frames + 1
                     /\ sinceReport' = sinceReport + 1
                     /\ UNCHANGED <<fpsLabel, lastFpsTime>>

\* holistic.send delivers its results to onResults and settles
SendResolve(s, groups, throwAt) ==
  /\ s \in sends
  /\ throwAt \in 0..Len(DrawCalls(groups))
  /\ OnResults(s, groups, throwAt)
  /\ sends' = sends \ {s}
  /\ UNCHANGED <<currentFacing, mirrorBackCamera, cameraVars, windowVars, now,
                 alerted, clicks, sent, hist, failed, conn>>

\* holistic.send rejects before producing results.  onFrame has no catch: its
\* promise rejects, and whether the Camera helper schedules another frame
\* after a rejected onFrame is outside this file (halts: it does not).
SendReject(s, halts) ==
  /\ s \in sends
  /\ sends' = sends \ {s}
  /\ lastIter' = "rejected"
  /\ started' = IF halts THEN {c \in started : c.id # s.cam} ELSE started
  /\ UNCHANGED <<currentFacing, mirrorBackCamera, cameraInstance, srcObject,
                 videoDims, videoTransform, tasks, liveStreams, windowVars,
                 canvasVars, fpsVars, now, alerted, clicks, sent, lastDraw,
                 sinceReport, hist, failed, conn>>

\* The viewport changes: window.innerWidth / innerHeight have their new
\* values at once, the 'resize' event is dispatched in a later task.
WindowSize(wd) ==
  /\ wd # winDims
  /\ winDims' = wd
  /\ resizePending' = TRUE
  /\ UNCHANGED <<currentFacing, mirrorBackCamera, cameraVars, canvasVars,
                 fpsVars, now, alerted, sends, clicks, sent, drawObs, hist,
                 failed, conn>>

\* window 'resize' listener
WindowResize ==
  /\ resizePending
  /\ resizePending' = FALSE
  /\ ResizeCanvas(videoDims, winDims)
  /\ UNCHANGED <<currentFacing, mirrorBackCamera, cameraVars, winDims,
                 fpsVars, now, alerted, sends, clicks, sent, drawObs, hist,
                 failed, conn>>

\* performance.now() advances
Tick(d) ==
  /\ now + d <= MaxNow
  /\ now' = now + d
  /\ UNCHANGED <<currentFacing, mirrorBackCamera, cameraVars, windowVars,
                 canvasVars, fpsVars, alerted, sends, clicks, sent, drawObs,
                 hist, failed, conn>>

Next ==
  \/ \E th \in BOOLEAN : Click(MaxClicks, th)
  \/ \E t \in tasks, g \in Facings : GumResolve(t, g)
  \/ LoadedMetadata
  \/ \E t \in tasks : GumReject(t)
  \/ \E t \in tasks : Playing(t)
  \/ \E t \in tasks : PlayResolve(t)
  \/ \E t \in tasks : PlayReject(t)
  \/ \E c \in started : CameraFrame(c, MaxSends)
  \/ \E s \in sends, gs \in GroupSets : \E k \in 0..Len(DrawCalls(gs)) :
       SendResolve(s, gs, k)
  \/ \E s \in sends, h \in BOOLEAN : SendReject(s, h)
  \/ \E wd \in WinDimsSet : WindowSize(wd)
  \/ WindowResize

Spec == Init /\ [][Next]_vars

\* The same operations with fewer frames, for the mirror decisions across
\* camera switches.
NextMirror ==
  \/ \E th \in BOOLEAN : Click(MaxClicks, th)
  \/ \E t \in tasks, g \in Facings : GumResolve(t, g)
  \/ LoadedMetadata
  \/ \E t \in tasks : GumReject(t)
  \/ \E t \in tasks : Playing(t)
  \/ \E t \in tasks : PlayResolve(t)
  \/ \E t \in tasks : PlayReject(t)
  \/ \E c \in started : CameraFrame(c, MaxMirrorSends)
  \/ \E s \in sends, gs \in GroupSets : \E k \in 0..Len(DrawCalls(gs)) :
       SendResolve(s, gs, k)
  \/ \E s \in sends, h \in BOOLEAN : SendReject(s, h)
  \/ \E wd \in WinDimsSet : WindowSize(wd)
  \/ WindowResize

SpecMirror == Init /\ [][NextMirror]_vars

\* The FPS counter over a run of frames, with the clock.
NextFps ==
  \/ \E t \in tasks, g \in Facings : GumResolve(t, g)
  \/ LoadedMetadata
  \/ \E t \in tasks : Playing(t)
  \/ \E t \in tasks : PlayResolve(t)
  \/ \E c \in started : CameraFrame(c, MaxFpsSends)
  \/ \E s \in sends, k \in 0..Len(DrawCalls({"pose"})) :
       SendResolve(s, {"pose"}, k)
  \/ \E s \in sends, h \in BOOLEAN : SendReject(s, h)
  \/ \E d \in {500, 1000} : Tick(d)

SpecFps == Init /\ [][NextFps]_vars

\* Camera switching alone: clicks and the settling of acquisitions.
NextSwitch ==
  \/ \E th \in BOOLEAN : Click(MaxSwitchClicks, th)
  \/ \E t \in tasks, g \in Facings : GumResolve(t, g)
  \/ LoadedMetadata
  \/ \E t \in tasks : GumReject(t)
  \/ \E t \in tasks : Playing(t)
  \/ \E t \in tasks : PlayResolve(t)
  \/ \E t \in tasks : PlayReject(t)

SpecSwitch == Init /\ [][NextSwitch]_vars

\* Drawing alone: one camera, frames with every combination of groups.
NextDraw ==
  \/ \E t \in tasks, g \in Facings : GumResolve(t, g)
  \/ LoadedMetadata
  \/ \E t \in tasks : Playing(t)
  \/ \E t \in tasks : PlayResolve(t)
  \/ \E c \in started : CameraFrame(c, MaxSends)
  \/ \E s \in sends, gs \in AllGroupSets : \E k \in 0..Len(DrawCalls(gs)) :
       SendResolve(s, gs, k)

SpecDraw == Init /\ [][NextDraw]_vars

\* One connection of one drawConnectors call, over all pairs of endpoint scores.
DrawConnector ==
  /\ conn.drawn = "pending"
  /\ conn' = [conn EXCEPT !.drawn = IF LineStroked(conn.a, conn.b) THEN "yes"
                                     ELSE "no"]
  /\ UNCHANGED <<currentFacing, mirrorBackCamera, cameraVars, windowVars,
                 canvasVars, fpsVars, now, alerted, sends, clicks, sent,
                 drawObs, hist, failed>>

InitLines ==
  /\ InitPage
  /\ conn \in {[a |-> x, b |-> y, drawn |-> "pending"] : x \in Scores, y \in Scores}

NextLines == DrawConnector

SpecLines == InitLines /\ [][NextLines]_vars

\* ------------------------------------------------------------ properties

\* a step in which a send settled by running onResults
DrawStep ==
  /\ sends' # sends /\ sent' = sent
  /\ lastIter' \in {"drawn", "threw"}

\* a click-initiated startCamera call has not settled yet
SwitchInFlight == \E t \in tasks : t.id > 0

\* C1: at most one acquisition is active at any time: never two pending
\* getUserMedia requests, never two streams with un-stopped tracks, never two
\* started Camera instances.
C1_OneAcquisition ==
  /\ Cardinality({t \in tasks : t.pc = "gum"}) <= 1
  /\ Cardinality(liveStreams) <= 1
  /\ Cardinality(started) <= 1

\* C2: no onResults call runs while a camera switch started by a click has
\* not yet started its new Camera instance.
C2_NoDrawDuringSwitch == [][SwitchInFlight => ~DrawStep]_vars

C4_CanvasMatchesFrame ==
  [][DrawStep => canvasDims' = CameraDims(lastDraw'.frame.granted)]_vars

\* C5: after two clicks the requested facing and the mirror state derived
\* from it have the values they had before the first of the two, in every
\* state from the second click on: whether or not a switch was in flight at
\* either click, so in particular when each switch completed before the next
\* click.
C5_TwoSwitchesRestore ==
  Len(hist) = 2 =>
    /\ currentFacing = hist[1].f
    /\ ShouldMirror(currentFacing, mirrorBackCamera) = hist[1].m

\* C5 witness: two switches that started from the back camera, each clicked
\* with no startCamera call in flight, the second one completed with its
\* Camera running.
C5_Witness ==
  /\ Len(hist) = 2 /\ tasks = {}
  /\ hist[1].idle /\ hist[2].idle
  /\ hist[1].f = "environment" /\ hist[2].f = "user"
  /\ cameraInstance # NoCamera /\ cameraInstance.id = clicks

\* C6: immediately before every onResults call starts, the canvas transform
\* is the identity, whatever the draws before it did.
C6_IdentityBeforeDraw == [][DrawStep => ctxFlipped = FALSE]_vars

\* C7: when a drawing step throws after the mirror transform was applied, the
\* context state saved at the start of the draw is restored when onResults
\* exits: the save stack is empty and the transform is the saved one.
C7_RestoredOnThrow ==
  [][(DrawStep /\ lastIter' = "threw") =>
       (ctxStack' = <<>> /\ ctxFlipped' = lastDraw'.flipAtSave)]_vars

\* C8: never two holistic.send calls outstanding at the same time.
C8_OneSendOutstanding == Cardinality(sends) <= 1

\* C9: an onResults call that completes with at least 1000 ms elapsed since
\* the last report sets the label to the number of calls completed since that
\* report (this one included), the counter to 0 and the timer to the current
\* time; with less than 1000 ms elapsed it leaves the label and the timer alone
\* and adds exactly 1 to the counter.
C9_FpsAccounting ==
  [][(DrawStep /\ lastIter' = "drawn") =>
       IF now - lastFpsTime >= 1000
       THEN fpsLabel' = sinceReport + 1 /\ frames' = 0 /\ lastFpsTime' = now
       ELSE fpsLabel' = fpsLabel /\ lastFpsTime' = lastFpsTime
            /\ frames' = frames + 1]_vars

\* C9 witness: 30 calls completed when the clock reached exactly 1000 ms, and
\* the label shows 30 with the counter back at 0.
C9_Witness ==
  /\ lastIter = "drawn"
  /\ fpsLabel = 30 /\ frames = 0
  /\ lastFpsTime = 1000 /\ now = 1000

\* a step in which a send settled by rejecting
RejectStep ==
  /\ sends' # sends /\ sent' = sent
  /\ lastIter' = "rejected"

\* C10: after an iteration whose holistic.send was rejected the overlay is
\* clear.
C10_OverlayClearedOnFailure == lastIter = "rejected" => overlay = <<>>

\* C11: a rejected holistic.send does not end the render loop: every Camera
\* whose loop was running before the rejection is still running after it.
C11_LoopSurvivesRejection == [][RejectStep => started' = started]_vars

\* C12: after a failed acquisition, and until the next click, the error has
\* been shown, no Camera instance is stored or running, and no onResults call
\* draws on the overlay.
C12_NothingAfterFailure ==
  [][failed => (alerted /\ cameraInstance = NoCamera /\ started = {}
                /\ ~DrawStep)]_vars

\* C13: the line of a connection is drawn if and only if both endpoints score
\* strictly more than 0.35.
C13_LineIffAbove35 ==
  conn.drawn # "pending" =>
    ((conn.drawn = "yes") <=> (conn.a > 35 /\ conn.b > 35))

\* C14: when a startCamera call that overlaps no other issues its
\* getUserMedia request, the Camera instance
\* that was stored has been stopped and the stream that was attached to the
\* video element has had its tracks stopped and has been detached.
C14_StopBeforeAcquire ==
  [][(clicks' = clicks + 1 /\ tasks = {}) =>
       /\ cameraInstance \notin started' /\ cameraInstance' = NoCamera
       /\ srcObject \notin liveStreams' /\ srcObject' = NoStream
       /\ \E t \in tasks' \ tasks : t.pc = "gum"]_vars

\* C15: when resizeCanvas runs from the window resize listener while the
\* canvas already has the video's native dimensions, the canvas dimensions
\* and the overlay painted on it stay as they are.
C15_ResizeNoOpWhenMatching ==
  [][(resizePending /\ ~resizePending' /\ videoDims # NoDims
        /\ canvasDims = videoDims) =>
       (canvasDims' = canvasDims /\ overlay' = overlay)]_vars

\* position of a group in the order face, body, left hand, right hand
GroupRank(g) ==
  IF g = "face" THEN 1 ELSE IF g = "pose" THEN 2 ELSE IF g = "left" THEN 3 ELSE 4

\* C16: what a draw leaves on the canvas was painted after the clear, in the
\* order face, body, left hand, right hand: nothing of an earlier draw
\* remains and both hands come after the body.
C16_ClearThenFixedOrder ==
  \A i, j \in 1..Len(overlay) :
    i < j => GroupRank(overlay[i]) < GroupRank(overlay[j])

\* C16 witness: a second completed draw, of a frame with body and both hands
\* and no face.
C16_Witness ==
  /\ lastIter = "drawn" /\ frames >= 2
  /\ overlay = <<"pose", "left", "right">>

\* C17: once every startCamera call has settled, the stream on the video
\* element and the stored Camera instance are those requested with the
\* current value of currentFacing.
C17_SettledMatchesFacing ==
  tasks = {} =>
    /\ (srcObject # NoStream => srcObject.req = currentFacing)
    /\ (cameraInstance # NoCamera => cameraInstance.req = currentFacing)

\* C18: after a startCamera call that failed, with no click and no other
\* call pending since, no stream with un-stopped tracks is attached to the
\* video element.
C18_NoLiveStreamAfterFailure ==
  (failed /\ tasks = {}) => srcObject \notin liveStreams

\* C19: mirrorBackCamera stays true, so the mirror flag is true at every
\* draw and for the facing in effect before every click, whichever facing
\* that is.
C19_AlwaysMirrored ==
  /\ mirrorBackCamera = TRUE
  /\ (lastDraw.frame # NoStream => lastDraw.mirror = TRUE)
  /\ \A i \in 1..Len(hist) : hist[i].m = TRUE

\* C19 witness: mirrored for the back camera before a click, and a frame of
\* the stream obtained by that click drawn mirrored for the front camera.
C19_Witness ==
  /\ clicks = 1 /\ currentFacing = "user"
  /\ Len(hist) = 1 /\ hist[1].f = "environment" /\ hist[1].m
  /\ lastIter = "drawn" /\ lastDraw.frame.id = 1 /\ lastDraw.mirror

====
